---- MODULE Spec2Model ----
(***************************************************************************)
(* Model of the HotelInk contract (src/lib.rs): a guest map keyed by id    *)
(* and a pool of free rooms, with the messages add_guest, get_guest,       *)
(* update_guest, delete_guest and list_available_rooms.                    *)
(*                                                                         *)
(* The messages are modelled as the methods of the contract object act on  *)
(* its fields: Mapping::insert / Mapping::remove take effect when they are *)
(* called, and a message that returns Err keeps what it did before the     *)
(* return.                                                                 *)
(*                                                                         *)
(* Strings are sequences of one-character strings; Option<T> is the empty  *)
(* sequence (None) or a one-element sequence (Some).                       *)
(***************************************************************************)
EXTENDS Integers, Sequences, FiniteSets, TLC

VARIABLES guests, rooms, now, last

vars == <<guests, rooms, now, last>>

(***************************************************************************)
(* Program constants                                                       *)
(***************************************************************************)
\* for room_number in 1..=20
NumRooms == 20
\* id <= 99999999 || id > 999999999
IdLow == 99999999
IdHigh == 999999999
\* (timestamp/1000), checked_sub(3 * 3600)
MillisPerSecond == 1000
BrOffsetSeconds == 10800

(***************************************************************************)
(* Bounds of the model                                                     *)
(***************************************************************************)
\* the block timestamp runs over 0..MaxClock
MaxClock == 1

(***************************************************************************)
(* Inputs of the messages                                                  *)
(***************************************************************************)
None == <<>>
Some(x) == <<x>>
Option(S) == {None} \cup {Some(x) : x \in S}

IdInputs == {IdLow, IdLow + 1, IdHigh, IdHigh + 1}
\* the ids get_guest, update_guest and delete_guest are called with: those
\* that can be keys of the map
KeyInputs == {IdLow + 1, IdHigh, IdHigh + 1}
NewIdInputs == {None, Some(IdHigh), Some(IdHigh + 1)}
NameInputs == {<<" ">>, <<" ", "a">>}
NewNameInputs == {None, Some(<<" ">>), Some(<<"b">>)}
EmailInputs == {<<>>, <<"e">>}
NewEmailInputs == {None, Some(<<>>), Some(<<"f">>)}
PaymentMethod == {"Credit", "Cash", "Pix"}
PaymentInputs == {"Credit"}
NewPaymentInputs == {None, Some("Pix")}
RoomInputs == {1, NumRooms, NumRooms + 1}
NewRoomInputs == {None, Some(1), Some(NumRooms)}

(***************************************************************************)
(* Results of the messages                                                 *)
(***************************************************************************)
Ok == "Ok"
RoomUnavailable == "Room not available"
InvalidIdentifier == "Invalid RG"
EmptyName == "Empty name"
EmptyEmail == "Empty email!"
GuestNotFound == "Guest not found"

(***************************************************************************)
(* Helpers: str::trim, Vec::contains, Vec::retain, Mapping                 *)
(***************************************************************************)
RECURSIVE TrimStart(_)
TrimStart(s) ==
    IF s # <<>> /\ Head(s) = " " THEN TrimStart(Tail(s)) ELSE s

RECURSIVE TrimEnd(_)
TrimEnd(s) ==
    IF s # <<>> /\ s[Len(s)] = " " THEN TrimEnd(SubSeq(s, 1, Len(s) - 1)) ELSE s

Trim(s) == TrimEnd(TrimStart(s))

IsBlank(s) == Trim(s) = <<>>

Contains(rms, room) == \E i \in 1..Len(rms) : rms[i] = room

Retain(rms, room) == SelectSeq(rms, LAMBDA r : r # room)

MapRemove(gs, id) == [k \in (DOMAIN gs) \ {id} |-> gs[k]]

MapInsert(gs, id, guest) ==
    [k \in (DOMAIN gs) \cup {id} |-> IF k = id THEN guest ELSE gs[k]]

MapGet(gs, id) == IF id \in DOMAIN gs THEN Some(gs[id]) ELSE None

\* variant: the lower bound is inclusive
ValidIdInclusiveLow(id) == ~(id < IdLow \/ id > IdHigh)

ValidId(id) == ~(id <= IdLow \/ id > IdHigh)

Guest(id, name, email, payment, checkin, room) ==
    [id |-> id, name |-> name, email |-> email, payment |-> payment,
     checkin |-> checkin, room |-> room]

\* convert_timestamp: whole seconds, minus three hours; the rendering is
\* represented by the instant (in seconds) that is rendered
convert_timestamp(timestamp) ==
    (timestamp \div MillisPerSecond) - BrOffsetSeconds

View(guest) ==
    [id |-> guest.id, name |-> guest.name, email |-> guest.email,
     payment |-> guest.payment, datetime |-> convert_timestamp(guest.checkin),
     room |-> guest.room]

\* The message that has just executed: its arguments, what it returned, and
\* the map, the pool and the block timestamp it started from.  Idle once the
\* caller has taken the result.
Idle == [op |-> "idle"]

Call(op, args, result) ==
    [op |-> op, args |-> args, result |-> result,
     guests |-> guests, rooms |-> rooms, now |-> now]

(***************************************************************************)
(* Constructor                                                             *)
(***************************************************************************)
default ==
    /\ guests = <<>>
    /\ rooms = [i \in 1..NumRooms |-> i]

Init ==
    /\ default
    /\ now = 0
    /\ last = Idle

(***************************************************************************)
(* add_guest                                                               *)
(***************************************************************************)
\* variant: the room is not checked
AddGuestResultNoRoomCheck(rms, id, name, email, room) ==
    IF ~ValidId(id) THEN InvalidIdentifier
    ELSE IF IsBlank(name) THEN EmptyName
    ELSE IF IsBlank(email) THEN EmptyEmail
    ELSE Ok

\* variant: the id is checked before the room
AddGuestResultIdFirst(rms, id, name, email, room) ==
    IF ~ValidId(id) THEN InvalidIdentifier
    ELSE IF ~Contains(rms, room) THEN RoomUnavailable
    ELSE IF IsBlank(name) THEN EmptyName
    ELSE IF IsBlank(email) THEN EmptyEmail
    ELSE Ok

AddGuestResult(rms, id, name, email, room) ==
    IF ~Contains(rms, room) THEN RoomUnavailable
    ELSE IF ~ValidId(id) THEN InvalidIdentifier
    ELSE IF IsBlank(name) THEN EmptyName
    ELSE IF IsBlank(email) THEN EmptyEmail
    ELSE Ok

\* variant: name and email change places in the record
AddGuestGuestsSwapped(gs, id, name, email, payment, checkin, room, result) ==
    IF result = Ok
      THEN MapInsert(gs, id, Guest(id, email, name, payment, checkin, room))
      ELSE gs

\* variant: a record already stored under the id is kept
AddGuestGuestsKeepExisting(gs, id, name, email, payment, checkin, room, result) ==
    IF result = Ok /\ id \notin DOMAIN gs
      THEN MapInsert(gs, id, Guest(id, name, email, payment, checkin, room))
      ELSE gs

\* self.guests.insert(id, &new), reached only past every return Err
AddGuestGuests(gs, id, name, email, payment, checkin, room, result) ==
    IF result = Ok
      THEN MapInsert(gs, id, Guest(id, name, email, payment, checkin, room))
      ELSE gs

\* variant: the room leaves the pool before the arguments are validated
AddGuestRoomsEarly(rms, room, result) == Retain(rms, room)

\* variant: the room is not taken out of the pool
AddGuestRoomsKeep(rms, room, result) == rms

\* self.rooms.retain(|&r| r != room), reached only past every return Err
AddGuestRooms(rms, room, result) ==
    IF result = Ok THEN Retain(rms, room) ELSE rms

add_guest(id, name, email, payment, room) ==
    LET result == AddGuestResult(rooms, id, name, email, room) IN
    /\ guests' = AddGuestGuests(guests, id, name, email, payment, now, room, result)
    /\ rooms' = AddGuestRooms(rooms, room, result)
    /\ last' = Call("add_guest",
                     [id |-> id, name |-> name, email |-> email,
                      payment |-> payment, room |-> room],
                     [status |-> result])
    /\ UNCHANGED now

(***************************************************************************)
(* get_guest                                                               *)
(***************************************************************************)
\* variant: an absent guest is returned as the default record
GetGuestViewOrDefault(gs, id) ==
    IF MapGet(gs, id) = None
      THEN Some(View(Guest(0, <<>>, <<>>, "Credit", 0, 0)))
      ELSE Some(View(MapGet(gs, id)[1]))

GetGuestView(gs, id) ==
    IF MapGet(gs, id) = None THEN None ELSE Some(View(MapGet(gs, id)[1]))

get_guest(id) ==
    /\ last' = Call("get_guest", [id |-> id],
                     [status |-> Ok, view |-> GetGuestView(guests, id)])
    /\ UNCHANGED <<guests, rooms, now>>

(***************************************************************************)
(* update_guest                                                            *)
(***************************************************************************)
\* variant: the id range is checked before the guest is looked up
UpdateResultRangeFirst(gs, rms, id, new_id, name, email, room) ==
    IF new_id # None /\ ~ValidId(id) THEN InvalidIdentifier
    ELSE IF MapGet(gs, id) = None THEN GuestNotFound
    ELSE IF name # None /\ IsBlank(name[1]) THEN EmptyName
    ELSE IF email # None /\ IsBlank(email[1]) THEN EmptyEmail
    ELSE IF room # None /\ ~Contains(rms, room[1]) THEN RoomUnavailable
    ELSE Ok

\* the first return Err reached, or Ok
UpdateResult(gs, rms, id, new_id, name, email, room) ==
    IF MapGet(gs, id) = None THEN GuestNotFound
    ELSE IF new_id # None /\ ~ValidId(id) THEN InvalidIdentifier
    ELSE IF name # None /\ IsBlank(name[1]) THEN EmptyName
    ELSE IF email # None /\ IsBlank(email[1]) THEN EmptyEmail
    ELSE IF room # None /\ ~Contains(rms, room[1]) THEN RoomUnavailable
    ELSE Ok

\* variant: the working copy is rebuilt with the default checkin
UpdateStagedDefaultCheckin(guest, new_id, name, email, payment, room) ==
    [id |-> IF new_id # None THEN new_id[1] ELSE guest.id,
     name |-> IF name # None THEN name[1] ELSE guest.name,
     email |-> IF email # None THEN email[1] ELSE guest.email,
     payment |-> IF payment # None THEN payment[1] ELSE guest.payment,
     checkin |-> 0,
     room |-> IF room # None THEN room[1] ELSE guest.room]

\* the local copy `guest` once every supplied field is assigned
UpdateStaged(guest, new_id, name, email, payment, room) ==
    [id |-> IF new_id # None THEN new_id[1] ELSE guest.id,
     name |-> IF name # None THEN name[1] ELSE guest.name,
     email |-> IF email # None THEN email[1] ELSE guest.email,
     payment |-> IF payment # None THEN payment[1] ELSE guest.payment,
     checkin |-> guest.checkin,
     room |-> IF room # None THEN room[1] ELSE guest.room]

\* variant: the old key is not removed
UpdateRemovedKeep(gs, id, new_id) == gs

\* the map once the new_id block is passed: self.guests.remove(id)
UpdateRemoved(gs, id, new_id) ==
    IF new_id # None THEN MapRemove(gs, id) ELSE gs

\* variant: the record is written back under the id argument
UpdateInsertedUnderOldKey(gs, id, guest) == MapInsert(gs, id, guest)

\* self.guests.insert(guest.id, &guest): the key is the working copy's id,
\* which is new_id when one was supplied, not the id argument
UpdateInserted(gs, id, guest) == MapInsert(gs, guest.id, guest)

\* the map at a return Err: the removal of the new_id block stays when the
\* error is a later one
UpdateFailedGuests(gs, id, new_id, result) ==
    IF result \in {GuestNotFound, InvalidIdentifier}
      THEN gs
      ELSE UpdateRemoved(gs, id, new_id)

\* variant: the previous room takes the place of the new room in the pool
UpdateRoomsInPlace(rms, old_room, room) ==
    IF room # None
      THEN [i \in DOMAIN rms |-> IF rms[i] = room[1] THEN old_room ELSE rms[i]]
      ELSE rms

\* self.rooms.retain(|&r| r != room); self.rooms.push(guest.room)
UpdateRooms(rms, old_room, room) ==
    IF room # None THEN Append(Retain(rms, room[1]), old_room) ELSE rms

update_guest(id, new_id, name, email, payment, room) ==
    LET result == UpdateResult(guests, rooms, id, new_id, name, email, room) IN
    /\ IF result = Ok
         THEN LET guest == guests[id] IN
              /\ guests' = UpdateInserted(UpdateRemoved(guests, id, new_id), id,
                               UpdateStaged(guest, new_id, name, email, payment, room))
              /\ rooms' = UpdateRooms(rooms, guest.room, room)
         ELSE /\ guests' = UpdateFailedGuests(guests, id, new_id, result)
              /\ UNCHANGED rooms
    /\ last' = Call("update_guest",
                     [id |-> id, new_id |-> new_id, name |-> name, email |-> email,
                      payment |-> payment, room |-> room],
                     [status |-> result])
    /\ UNCHANGED now

(***************************************************************************)
(* delete_guest                                                            *)
(***************************************************************************)
DeleteResult(gs, id) == IF MapGet(gs, id) = None THEN GuestNotFound ELSE Ok

\* variant: the room goes back to the front of the pool
DeleteRoomsFront(rms, room) == <<room>> \o rms

\* self.rooms.push(guest.room)
DeleteRooms(rms, room) == Append(rms, room)

delete_guest(id) ==
    LET result == DeleteResult(guests, id) IN
    /\ IF result = Ok
         THEN /\ guests' = MapRemove(guests, id)
              /\ rooms' = DeleteRooms(rooms, guests[id].room)
         ELSE UNCHANGED <<guests, rooms>>
    /\ last' = Call("delete_guest", [id |-> id], [status |-> result])
    /\ UNCHANGED now

(***************************************************************************)
(* list_available_rooms                                                    *)
(***************************************************************************)
list_available_rooms ==
    /\ last' = Call("list_available_rooms", <<>>,
                     [status |-> Ok, list |-> rooms])
    /\ UNCHANGED <<guests, rooms, now>>

(***************************************************************************)
(* The environment: the block timestamp advances between messages          *)
(***************************************************************************)
Tick ==
    /\ last = Idle
    /\ now < MaxClock
    /\ now' = now + 1
    /\ UNCHANGED <<guests, rooms, last>>

\* the caller takes the result; the next message can start
Return ==
    /\ last # Idle
    /\ last' = Idle
    /\ UNCHANGED <<guests, rooms, now>>

AddGuest ==
    /\ last = Idle
    /\ \E id \in IdInputs, name \in NameInputs, email \in EmailInputs,
       payment \in PaymentInputs, room \in RoomInputs :
        add_guest(id, name, email, payment, room)

GetGuest == last = Idle /\ \E id \in KeyInputs : get_guest(id)

UpdateGuest ==
    /\ last = Idle
    /\ \E id \in KeyInputs, new_id \in NewIdInputs, name \in NewNameInputs,
       email \in NewEmailInputs, payment \in NewPaymentInputs,
       room \in NewRoomInputs :
        update_guest(id, new_id, name, email, payment, room)

DeleteGuest == last = Idle /\ \E id \in KeyInputs : delete_guest(id)

ListAvailableRooms == last = Idle /\ list_available_rooms

Next ==
    \/ AddGuest
    \/ GetGuest
    \/ UpdateGuest
    \/ DeleteGuest
    \/ ListAvailableRooms
    \/ Tick
    \/ Return

Spec == Init /\ [][Next]_vars

(***************************************************************************)
(* The same messages with more rooms in play and fewer values of the other *)
(* fields: three rooms can be taken and given back, the name and the email *)
(* of a guest are fixed.                                                   *)
(***************************************************************************)
PoolIdInputs == {IdLow + 1, IdHigh}
PoolRoomInputs == {1, 2, NumRooms, NumRooms + 1}
PoolNewNameInputs == {None, Some(<<" ">>)}
PoolNewRoomInputs == {None, Some(1), Some(2), Some(NumRooms)}

PoolAddGuest ==
    /\ last = Idle
    /\ \E id \in PoolIdInputs, room \in PoolRoomInputs :
        add_guest(id, <<"a">>, <<"e">>, "Credit", room)

PoolUpdateGuest ==
    /\ last = Idle
    /\ \E id \in KeyInputs, new_id \in NewIdInputs, name \in PoolNewNameInputs,
          room \in PoolNewRoomInputs :
        update_guest(id, new_id, name, None, None, room)

NextPool ==
    \/ PoolAddGuest
    \/ GetGuest
    \/ PoolUpdateGuest
    \/ DeleteGuest
    \/ ListAvailableRooms
    \/ Tick
    \/ Return

SpecPool == Init /\ [][NextPool]_vars

(***************************************************************************)
(* Vocabulary of the properties                                            *)
(***************************************************************************)
RoomUniverse == 1..NumRooms

PoolSet(rms) == {rms[i] : i \in DOMAIN rms}

HeldRooms(gs) == {gs[k].room : k \in DOMAIN gs}

Holders(gs, r) == {k \in DOMAIN gs : gs[k].room = r}

InIdRange(id) == IdLow < id /\ id <= IdHigh

NonEmptyAfterTrim(s) == \E i \in DOMAIN s : s[i] # " "

Returned(op) == last.op = op

Succeeded(op) == last.op = op /\ last.result.status = Ok

Failed(op) == last.op = op /\ last.result.status # Ok

(***************************************************************************)
(* C1: room exclusivity (I1).  In every reachable state the rooms of the   *)
(* pool and the rooms of the stored guests are disjoint, their union is    *)
(* 1..20, and every room is either in the pool or the room of exactly one  *)
(* stored guest.  The code breaks it.                                      *)
(***************************************************************************)
C1_RoomExclusivity ==
    /\ PoolSet(rooms) \cap HeldRooms(guests) = {}
    /\ PoolSet(rooms) \cup HeldRooms(guests) = RoomUniverse
    /\ \A r \in RoomUniverse :
        \/ r \in PoolSet(rooms) /\ Holders(guests, r) = {}
        \/ r \notin PoolSet(rooms) /\ Cardinality(Holders(guests, r)) = 1

(***************************************************************************)
(* C2: an update_guest that returns an error leaves the guest map and the  *)
(* room pool as they were before the call.  The code breaks it.            *)
(***************************************************************************)
C2_UpdateErrorChangesNothing ==
    Failed("update_guest") => guests = last.guests /\ rooms = last.rooms

(***************************************************************************)
(* C3: every stored guest has an id, and is stored under a key, with       *)
(* 99999999 < id <= 999999999.  The code breaks it.                        *)
(***************************************************************************)
C3_StoredIdsInRange ==
    \A k \in DOMAIN guests : InIdRange(k) /\ InIdRange(guests[k].id)

(***************************************************************************)
(* C4: uniqueness (I2).  No two stored records have the same id, and the   *)
(* id field of each stored record is the key it is stored under.           *)
(***************************************************************************)
C4_UniqueIds ==
    /\ \A k \in DOMAIN guests : guests[k].id = k
    /\ \A k1, k2 \in DOMAIN guests : k1 # k2 => guests[k1].id # guests[k2].id

\* an update_guest has moved a guest to a new id while another guest is stored
C4_Witness ==
    /\ Succeeded("update_guest")
    /\ last.args.new_id # None
    /\ last.args.new_id[1] # last.args.id
    /\ Cardinality(DOMAIN guests) = 2

(***************************************************************************)
(* C5: an add_guest that returns an error leaves the guest map and the     *)
(* room pool (contents and order) as they were before the call.            *)
(***************************************************************************)
C5_AddErrorChangesNothing ==
    Failed("add_guest") => guests = last.guests /\ rooms = last.rooms

\* an add_guest with a free room has failed on its id while a guest is stored
C5_Witness ==
    /\ Failed("add_guest")
    /\ last.result.status = InvalidIdentifier
    /\ last.args.room \in PoolSet(last.rooms)
    /\ DOMAIN guests # {}

(***************************************************************************)
(* C6: I4.  Every stored guest's room and every entry of the pool is a     *)
(* member of 1..20.                                                        *)
(***************************************************************************)
C6_RoomsInUniverse ==
    /\ \A k \in DOMAIN guests : guests[k].room \in RoomUniverse
    /\ \A i \in DOMAIN rooms : rooms[i] \in RoomUniverse

\* an add_guest asked for room 21 while a guest is stored
C6_Witness ==
    /\ Returned("add_guest")
    /\ last.args.room \notin RoomUniverse
    /\ InIdRange(last.args.id)
    /\ NonEmptyAfterTrim(last.args.name)
    /\ NonEmptyAfterTrim(last.args.email)
    /\ DOMAIN guests # {}

(***************************************************************************)
(* C7: I3.  A successful update_guest, whatever fields it is given, leaves *)
(* the guest's checkin as it was before the call.                          *)
(***************************************************************************)
C7_UpdateKeepsCheckin ==
    Succeeded("update_guest") =>
        LET key == IF last.args.new_id # None
                     THEN last.args.new_id[1]
                     ELSE last.args.id
        IN  /\ key \in DOMAIN guests
            /\ guests[key].checkin = last.guests[last.args.id].checkin

\* an update_guest with a new id and a new name has succeeded on a guest whose
\* checkin is neither the default nor the block timestamp of the update
C7_Witness ==
    /\ Succeeded("update_guest")
    /\ last.args.new_id # None
    /\ last.args.new_id[1] # last.args.id
    /\ last.args.name # None
    /\ last.guests[last.args.id].checkin # 0
    /\ guests[last.args.new_id[1]].checkin # 0

(***************************************************************************)
(* C8: add_guest checks room in pool, id range, name, email in this order  *)
(* and returns the error of the first check that fails; it succeeds        *)
(* exactly when all four hold.                                             *)
(***************************************************************************)
C8_AddGuestCheckOrder ==
    Returned("add_guest") =>
        LET a == last.args
            roomOk == a.room \in PoolSet(last.rooms)
            idOk == InIdRange(a.id)
            nameOk == NonEmptyAfterTrim(a.name)
            emailOk == NonEmptyAfterTrim(a.email)
            status == last.result.status
        IN  /\ ~roomOk => status = RoomUnavailable
            /\ roomOk /\ ~idOk => status = InvalidIdentifier
            /\ roomOk /\ idOk /\ ~nameOk => status = EmptyName
            /\ roomOk /\ idOk /\ nameOk /\ ~emailOk => status = EmptyEmail
            /\ status = Ok <=> roomOk /\ idOk /\ nameOk /\ emailOk

\* an add_guest that fails every check has returned the room's error
C8_Witness ==
    /\ Returned("add_guest")
    /\ last.args.room \notin PoolSet(last.rooms)
    /\ last.args.room \in RoomUniverse
    /\ ~InIdRange(last.args.id)
    /\ ~NonEmptyAfterTrim(last.args.name)
    /\ ~NonEmptyAfterTrim(last.args.email)
    /\ last.result.status = RoomUnavailable

(***************************************************************************)
(* C9: after a successful add_guest(id, name, email, payment, room),       *)
(* get_guest(id) returns that id, name, email, payment and room, with the  *)
(* checkin the block timestamp of the call; the room has left the pool,    *)
(* every other room of the pool is still in it, and every guest stored     *)
(* under another id is unchanged.                                          *)
(***************************************************************************)
C9_AddGuestEffect ==
    Succeeded("add_guest") =>
        LET a == last.args IN
        /\ a.id \in DOMAIN guests
        /\ guests[a.id].checkin = last.now
        /\ GetGuestView(guests, a.id) =
               Some([id |-> a.id, name |-> a.name, email |-> a.email,
                     payment |-> a.payment,
                     datetime |-> convert_timestamp(last.now), room |-> a.room])
        /\ a.room \notin PoolSet(rooms)
        /\ \A r \in PoolSet(last.rooms) \ {a.room} : r \in PoolSet(rooms)
        /\ \A k \in (DOMAIN last.guests) \ {a.id} :
               k \in DOMAIN guests /\ guests[k] = last.guests[k]

\* an add_guest has succeeded at a later block while another guest is stored
C9_Witness ==
    /\ Succeeded("add_guest")
    /\ last.now # 0
    /\ (DOMAIN last.guests) \ {last.args.id} # {}
    /\ Trim(last.args.name) # last.args.name

(***************************************************************************)
(* C10: update id migration.  After a successful update_guest(id, new_id)  *)
(* with new_id different from id and no other field, get_guest(id) returns *)
(* nothing, get_guest(new_id) returns the name, email, payment, checkin    *)
(* and room the guest had, with id new_id, and the pool is unchanged.      *)
(***************************************************************************)
C10_IdOnlyUpdate ==
    /\ Succeeded("update_guest")
    /\ last.args.new_id # None
    /\ last.args.name = None
    /\ last.args.email = None
    /\ last.args.payment = None
    /\ last.args.room = None

C10_UpdateIdMigration ==
    (C10_IdOnlyUpdate /\ last.args.new_id[1] # last.args.id) =>
        LET old == last.guests[last.args.id]
            new_id == last.args.new_id[1]
        IN  /\ GetGuestView(guests, last.args.id) = None
            /\ GetGuestView(guests, new_id) =
                   Some([id |-> new_id, name |-> old.name, email |-> old.email,
                         payment |-> old.payment,
                         datetime |-> convert_timestamp(old.checkin),
                         room |-> old.room])
            /\ guests[new_id].checkin = old.checkin
            /\ rooms = last.rooms

\* an update_guest has moved a guest with changed fields to a new id
C10_Witness ==
    /\ C10_IdOnlyUpdate
    /\ last.args.new_id[1] # last.args.id
    /\ last.guests[last.args.id].payment # "Credit"
    /\ last.guests[last.args.id].checkin # 0

(***************************************************************************)
(* C11: delete_guest(id) on a stored guest succeeds, removes that guest    *)
(* (get_guest(id) then returns nothing), appends the guest's room as the   *)
(* last element of the pool, and leaves every other guest and every other  *)
(* pool entry, and their order, unchanged.                                 *)
(***************************************************************************)
C11_DeleteGuestEffect ==
    (Returned("delete_guest") /\ last.args.id \in DOMAIN last.guests) =>
        LET id == last.args.id
            room == last.guests[id].room
        IN  /\ last.result.status = Ok
            /\ DOMAIN guests = (DOMAIN last.guests) \ {id}
            /\ GetGuestView(guests, id) = None
            /\ \A k \in DOMAIN guests : guests[k] = last.guests[k]
            /\ Len(rooms) = Len(last.rooms) + 1
            /\ rooms[Len(rooms)] = room
            /\ \A i \in DOMAIN last.rooms : rooms[i] = last.rooms[i]

\* a delete_guest has removed one of two stored guests
C11_Witness ==
    /\ Succeeded("delete_guest")
    /\ Cardinality(DOMAIN last.guests) = 2
    /\ rooms[Len(rooms)] = last.guests[last.args.id].room

(***************************************************************************)
(* C12: update_guest and delete_guest return the guest-not-found error     *)
(* exactly when no guest is stored under id, whatever the other arguments; *)
(* the map and the pool are then unchanged.                                *)
(***************************************************************************)
C12_GuestNotFound ==
    (Returned("update_guest") \/ Returned("delete_guest")) =>
        /\ last.result.status = GuestNotFound
               <=> last.args.id \notin DOMAIN last.guests
        /\ last.result.status = GuestNotFound
               => guests = last.guests /\ rooms = last.rooms

\* an update_guest with a new id and a blank name was given an id that is not
\* stored while another guest is
C12_Witness ==
    /\ Returned("update_guest")
    /\ last.result.status = GuestNotFound
    /\ last.args.new_id # None
    /\ last.args.name = Some(<<" ">>)
    /\ ~InIdRange(last.args.id)
    /\ DOMAIN guests # {}

(***************************************************************************)
(* C13: with a free room and a name and an email that are not blank,       *)
(* add_guest fails with the id error for id 99999999 and 1000000000 and    *)
(* succeeds for 100000000 and 999999999; it accepts exactly the ids with   *)
(* 99999999 < id <= 999999999.                                             *)
(***************************************************************************)
C13_AddGuestIdBoundary ==
    (/\ Returned("add_guest")
     /\ last.args.room \in PoolSet(last.rooms)
     /\ NonEmptyAfterTrim(last.args.name)
     /\ NonEmptyAfterTrim(last.args.email)) =>
        LET id == last.args.id
            status == last.result.status
        IN  /\ id = 99999999 => status = InvalidIdentifier
            /\ id = 100000000 => status = Ok
            /\ id = 999999999 => status = Ok
            /\ id = 1000000000 => status = InvalidIdentifier
            /\ status = Ok <=> (99999999 < id /\ id <= 999999999)
            /\ status # Ok => status = InvalidIdentifier

\* an add_guest that passes every other check was given id 99999999
C13_Witness ==
    /\ Returned("add_guest")
    /\ last.args.id = 99999999
    /\ last.args.room \in PoolSet(last.rooms)
    /\ NonEmptyAfterTrim(last.args.name)
    /\ NonEmptyAfterTrim(last.args.email)
    /\ last.result.status = InvalidIdentifier

(***************************************************************************)
(* C14: get_guest and list_available_rooms are pure reads.  Neither        *)
(* changes the map or the pool; list_available_rooms returns the pool, so  *)
(* a second call with no mutation between returns the same sequence;       *)
(* get_guest(id) returns nothing exactly when no guest is stored under id. *)
(***************************************************************************)
C14_PureReads ==
    /\ Returned("get_guest") =>
           /\ guests = last.guests /\ rooms = last.rooms
           /\ last.result.view = None <=> last.args.id \notin DOMAIN guests
           /\ last.args.id \in DOMAIN guests =>
                  last.result.view = Some(View(guests[last.args.id]))
    /\ Returned("list_available_rooms") =>
           /\ guests = last.guests /\ rooms = last.rooms
           /\ last.result.list = rooms

\* a get_guest has returned nothing while a guest is stored under another id
C14_Witness ==
    /\ Returned("get_guest")
    /\ last.result.view = None
    /\ DOMAIN guests # {}

(***************************************************************************)
(* C15: update_guest on a stored guest with a new_id outside               *)
(* 99999999 < new_id <= 999999999 fails with the id error.  The code       *)
(* breaks it.                                                              *)
(***************************************************************************)
C15_NewIdRangeChecked ==
    (/\ Returned("update_guest")
     /\ last.args.id \in DOMAIN last.guests
     /\ last.args.new_id # None
     /\ ~InIdRange(last.args.new_id[1])) =>
        last.result.status = InvalidIdentifier

(***************************************************************************)
(* C16: update_guest on a stored guest with a room.  If the room is not in *)
(* the pool (and the other fields supplied are valid) the call fails with  *)
(* the room error; on success the new room has left the pool, the guest's  *)
(* previous room is the last element of the pool, the guest's room is the  *)
(* new room, and the rooms of the pool together with the rooms of the      *)
(* stored guests are the same set as before.  The code breaks it.          *)
(***************************************************************************)
C16_UpdateRoom ==
    (/\ Returned("update_guest")
     /\ last.args.id \in DOMAIN last.guests
     /\ last.args.room # None) =>
        LET a == last.args
            room == a.room[1]
            old == last.guests[a.id]
            key == IF a.new_id # None THEN a.new_id[1] ELSE a.id
            othersValid ==
                /\ a.new_id # None => InIdRange(a.new_id[1])
                /\ a.name # None => NonEmptyAfterTrim(a.name[1])
                /\ a.email # None => NonEmptyAfterTrim(a.email[1])
        IN  /\ (room \notin PoolSet(last.rooms) /\ othersValid)
                   => last.result.status = RoomUnavailable
            /\ (room \in PoolSet(last.rooms) /\ last.result.status = Ok) =>
                   /\ room \notin PoolSet(rooms)
                   /\ rooms[Len(rooms)] = old.room
                   /\ key \in DOMAIN guests
                   /\ guests[key].room = room
                   /\ PoolSet(rooms) \cup HeldRooms(guests)
                          = PoolSet(last.rooms) \cup HeldRooms(last.guests)

(***************************************************************************)
(* C17: add_guest with an id that is already stored, a free room, a valid  *)
(* id and a name and an email that are not blank succeeds and replaces the *)
(* record under that id; the room of the replaced record is not returned   *)
(* to the pool.                                                            *)
(***************************************************************************)
C17_DuplicateIdAdd ==
    (/\ Returned("add_guest")
     /\ last.args.id \in DOMAIN last.guests
     /\ last.args.room \in PoolSet(last.rooms)
     /\ InIdRange(last.args.id)
     /\ NonEmptyAfterTrim(last.args.name)
     /\ NonEmptyAfterTrim(last.args.email)) =>
        LET a == last.args
            replaced == last.guests[a.id]
        IN  /\ last.result.status = Ok
            /\ DOMAIN guests = DOMAIN last.guests
            /\ guests[a.id] = Guest(a.id, a.name, a.email, a.payment,
                                    last.now, a.room)
            /\ replaced.room \notin PoolSet(rooms)
            /\ PoolSet(rooms) = PoolSet(last.rooms) \ {a.room}

\* an add_guest has replaced a record that had another room and another checkin
C17_Witness ==
    /\ Succeeded("add_guest")
    /\ last.args.id \in DOMAIN last.guests
    /\ last.guests[last.args.id].room # last.args.room
    /\ last.guests[last.args.id].checkin # last.now
    /\ last.guests[last.args.id].name # last.args.name

(***************************************************************************)
(* C18: pool order.  At initialization the map is empty and the pool is    *)
(* 1, 2, ..., 20; taking a room out (add_guest, update_guest with a room)  *)
(* keeps the order of the entries that stay; a room given back             *)
(* (delete_guest, update_guest with a room) is the last element;           *)
(* list_available_rooms returns the pool in its storage order.             *)
(***************************************************************************)
Position(rms, room) == CHOOSE i \in DOMAIN rms : rms[i] = room

Front(rms) == SubSeq(rms, 1, Len(rms) - 1)

\* `after` is `before` without `room`, in the same order
TakenOut(before, after, room) ==
    /\ Len(after) = Len(before) - 1
    /\ PoolSet(after) = PoolSet(before) \ {room}
    /\ \A i, j \in DOMAIN after :
           i < j => Position(before, after[i]) < Position(before, after[j])

C18_InitialPool ==
    /\ guests = <<>>
    /\ Len(rooms) = 20
    /\ \A i \in 1..20 : rooms[i] = i

C18_PoolOrderKept ==
    /\ Succeeded("add_guest") => TakenOut(last.rooms, rooms, last.args.room)
    /\ Succeeded("delete_guest") =>
           /\ Front(rooms) = last.rooms
           /\ rooms[Len(rooms)] = last.guests[last.args.id].room
    /\ (Succeeded("update_guest") /\ last.args.room # None) =>
           /\ TakenOut(last.rooms, Front(rooms), last.args.room[1])
           /\ rooms[Len(rooms)] = last.guests[last.args.id].room
    /\ (Succeeded("update_guest") /\ last.args.room = None) =>
           rooms = last.rooms
    /\ Returned("list_available_rooms") => last.result.list = rooms

C18_PoolOrder == C18_InitialPool /\ []C18_PoolOrderKept

\* list_available_rooms has returned a pool that is no longer ascending
C18_Witness ==
    /\ Returned("list_available_rooms")
    /\ \E i, j \in DOMAIN rooms : i < j /\ rooms[i] > rooms[j]
    /\ last.result.list = rooms

(***************************************************************************)
(* C19: in every reachable state the pool has no duplicate entries, no     *)
(* room is both in the pool and the room of a stored guest, and no two     *)
(* stored guests have the same room; so the number of stored guests plus   *)
(* the length of the pool is at most 20.                                   *)
(***************************************************************************)
C19_NoRoomTwice ==
    /\ \A i, j \in DOMAIN rooms : i # j => rooms[i] # rooms[j]
    /\ PoolSet(rooms) \cap HeldRooms(guests) = {}
    /\ \A k1, k2 \in DOMAIN guests : k1 # k2 => guests[k1].room # guests[k2].room
    /\ Cardinality(DOMAIN guests) + Len(rooms) <= NumRooms

\* an update_guest has moved a guest, with a new room, onto the id of another
\* stored guest
C19_Witness ==
    /\ Succeeded("update_guest")
    /\ last.args.new_id # None
    /\ last.args.new_id[1] # last.args.id
    /\ last.args.new_id[1] \in DOMAIN last.guests
    /\ last.args.room # None
    /\ Cardinality(DOMAIN last.guests) = 2
    /\ Cardinality(DOMAIN guests) = 1

(***************************************************************************)
(* C20: a room of 1..20 that is neither in the pool nor the room of a      *)
(* stored guest stays so in every later state.                             *)
(***************************************************************************)
LostRooms(gs, rms) == RoomUniverse \ (PoolSet(rms) \cup HeldRooms(gs))

C20_LostRoomsStayLost ==
    [][LostRooms(guests, rooms) \subseteq LostRooms(guests', rooms')]_vars

\* a delete_guest and an add_guest have gone through after a room was lost
C20_Witness ==
    /\ Succeeded("add_guest")
    /\ LostRooms(last.guests, last.rooms) # {}
    /\ Len(last.rooms) > 0
    /\ last.rooms[Len(last.rooms)] \in {1, 2}
    /\ Cardinality(DOMAIN guests) >= 2

====
